---- MODULE Spec2Model ----
(***************************************************************************)
(* pydantic-fixedwidth: OrderedField, Options, Fixedwidth.format_bytes and *)
(* Fixedwidth.parse_bytes (src/pydantic_fixedwidth/fixedwidth.py), driven  *)
(* by a caller that declares fields, defines one record class, and formats *)
(* and parses instances of it (src/tests/test_fixedwidth.py).              *)
(*                                                                         *)
(* Text is a sequence of code points, bytes a sequence of 0..255.          *)
(***************************************************************************)
EXTENDS Integers, Sequences, FiniteSets, TLC

VARIABLES
    suite,          \* which caller runs: "generic" or "test" (the test module)
    __counter,      \* fixedwidth.py:16, the process-wide declaration counter
    calls,          \* history: the kwargs of every OrderedField call, in call order
    declared,       \* the FieldInfo objects the calls returned, in call order
    model_fields,   \* cls.model_fields: <<[name, field_info]>> in mapping order
    _field_options, \* cls._field_options: <<[name, options]>> in schema order
    self,           \* the instance format_bytes was last called on
    result,         \* what that format_bytes call did
    raw,            \* the buffer parse_bytes was last called on
    parsed,         \* what that parse_bytes call did
    tpc,            \* per thread: position inside OrderedField
    tlocal,         \* per thread: the locals of the running OrderedField call
    tdone           \* history: the order every finished threaded call was given

vars == <<suite, __counter, calls, declared, model_fields, _field_options,
          self, result, raw, parsed, tpc, tlocal, tdone>>

classVars  == <<suite, __counter, calls, declared, model_fields, _field_options>>
callVars   == <<self, result, raw, parsed>>
threadVars == <<tpc, tlocal, tdone>>

None == [none |-> TRUE]

----------------------------------------------------------------------------
(* Bounds of the model *)

MaxFields  == 2     \* OrderedField calls of the generic caller
NumThreads == 2     \* threads declaring fields concurrently
MaxCalls   == 2     \* OrderedField calls per thread

----------------------------------------------------------------------------
(* str and bytes primitives the codec calls *)

\* str.strip(): the code points str.isspace() accepts (those below U+00A1)
IsSpace(c) == c \in (9..13) \cup (28..32) \cup {133, 160}

RECURSIVE lstrip(_)
lstrip(s) == IF s # <<>> /\ IsSpace(Head(s)) THEN lstrip(Tail(s)) ELSE s

RECURSIVE rstrip(_)
rstrip(s) ==
    IF s # <<>> /\ IsSpace(s[Len(s)]) THEN rstrip(SubSeq(s, 1, Len(s) - 1)) ELSE s

strip(s) == rstrip(lstrip(s))

\* UTF-8 of one code point of the Basic Multilingual Plane
Utf8Char(c) ==
    IF c < 128 THEN <<c>>
    ELSE IF c < 2048 THEN <<192 + (c \div 64), 128 + (c % 64)>>
    ELSE <<224 + (c \div 4096), 128 + ((c \div 64) % 64), 128 + (c % 64)>>

\* str.encode(s, "utf-8")
RECURSIVE str_encode(_)
str_encode(s) == IF s = <<>> THEN <<>> ELSE Utf8Char(Head(s)) \o str_encode(Tail(s))

IsCont(b) == b \in 128..191

\* bytes.decode(b, "utf-8"): [err, s]; err is UnicodeDecodeError
RECURSIVE bytes_decode(_)
bytes_decode(b) ==
    IF b = <<>> THEN [err |-> FALSE, s |-> <<>>]
    ELSE LET h == Head(b)
             n == IF h < 128 THEN 1
                  ELSE IF h \in 194..223 /\ Len(b) >= 2 /\ IsCont(b[2]) THEN 2
                  ELSE IF h \in 224..239 /\ Len(b) >= 3 /\ IsCont(b[2]) /\ IsCont(b[3])
                          /\ (h = 224 => b[2] >= 160) /\ (h = 237 => b[2] < 160)
                       THEN 3
                  ELSE 0
             c == IF n = 1 THEN h
                  ELSE IF n = 2 THEN (h - 192) * 64 + (b[2] - 128)
                  ELSE (h - 224) * 4096 + (b[2] - 128) * 64 + (b[3] - 128)
         IN  IF n = 0 THEN [err |-> TRUE, s |-> <<>>]
             ELSE LET rest == bytes_decode(SubSeq(b, n + 1, Len(b)))
                  IN  [err |-> rest.err, s |-> IF rest.err THEN <<>> ELSE <<c>> \o rest.s]

Repeat(fill, n) == [i \in 1..n |-> fill[1]]

\* bytes.ljust(width, fillbyte) / bytes.rjust(width, fillbyte)
ljust(b, width, fill) == IF width <= Len(b) THEN b ELSE b \o Repeat(fill, width - Len(b))
rjust(b, width, fill) == IF width <= Len(b) THEN b ELSE Repeat(fill, width - Len(b)) \o b

\* raw[i:j] with Python's index rules (negative indices count from the end)
SliceIndex(k, n) == IF k < 0 THEN (IF k + n < 0 THEN 0 ELSE k + n) ELSE IF k > n THEN n ELSE k
Slice(b, i, j) ==
    LET lo == SliceIndex(i, Len(b))
        hi == SliceIndex(j, Len(b))
    IN  IF lo >= hi THEN <<>> ELSE SubSeq(b, lo + 1, hi)

\* str(n) of an int
RECURSIVE Digits(_)
Digits(n) == IF n < 10 THEN <<48 + n>> ELSE Digits(n \div 10) \o <<48 + (n % 10)>>
int_str(n) == IF n < 0 THEN <<45>> \o Digits(0 - n) ELSE Digits(n)

\* %0wd
RECURSIVE ZeroPad(_, _)
ZeroPad(n, w) == IF w = 0 THEN <<>> ELSE ZeroPad(n \div 10, w - 1) \o <<48 + (n % 10)>>

----------------------------------------------------------------------------
(* Field values: [str |-> text], [int |-> n], [dt |-> <<Y, m, d, H, M, S, f>>] *)

IsStr(v) == DOMAIN v = {"str"}
IsInt(v) == DOMAIN v = {"int"}
IsDt(v)  == DOMAIN v = {"dt"}

\* Options.to_str: the default str (fixedwidth.py:129), or the test's strftime lambda
strftime(d) ==
    ZeroPad(d[1], 4) \o ZeroPad(d[2], 2) \o ZeroPad(d[3], 2) \o ZeroPad(d[4], 2)
        \o ZeroPad(d[5], 2) \o ZeroPad(d[6], 2) \o ZeroPad(d[7], 6)

to_str(tag, v) ==
    IF tag = "strftime" THEN strftime(v.dt)
    ELSE IF IsStr(v) THEN v.str
    ELSE int_str(v.int)

IsDigit(c) == c \in 48..57

RECURSIVE DigitsValue(_)
DigitsValue(s) ==
    IF s = <<>> THEN 0 ELSE DigitsValue(SubSeq(s, 1, Len(s) - 1)) * 10 + (s[Len(s)] - 48)

\* datetime.strptime(s, "%Y%m%d%H%M%S%f") on a string of 20 digits; anything
\* else the callers modelled hand it is a ValueError
strptime(s) ==
    IF Len(s) = 20 /\ \A i \in 1..20 : IsDigit(s[i])
    THEN [err |-> FALSE,
          v |-> [dt |-> <<DigitsValue(SubSeq(s, 1, 4)), DigitsValue(SubSeq(s, 5, 6)),
                          DigitsValue(SubSeq(s, 7, 8)), DigitsValue(SubSeq(s, 9, 10)),
                          DigitsValue(SubSeq(s, 11, 12)), DigitsValue(SubSeq(s, 13, 14)),
                          DigitsValue(SubSeq(s, 15, 20))>>]]
    ELSE [err |-> TRUE, v |-> None]

\* Options.from_str: the default lambda x: x.strip() (fixedwidth.py:123), or the
\* test's strptime lambda
from_str(tag, s) ==
    IF tag = "strptime" THEN strptime(s) ELSE [err |-> FALSE, v |-> [str |-> strip(s)]]

\* Options.to_bytes / Options.from_bytes defaults (fixedwidth.py:132-133)
to_bytes(s, encoding) == str_encode(s)
from_bytes(b, encoding) == bytes_decode(b)

----------------------------------------------------------------------------
(* Options and OrderedField *)

Restrict(f, keys) == [k \in (DOMAIN f) \cap keys |-> f[k]]

\* Options.model_fields (fixedwidth.py:115-133); from_bytes and to_bytes are
\* never overridden by the callers modelled and stay at their defaults
OptionsModelFields ==
    {"field_info", "length", "order", "justify", "fill_byte", "encoding", "from_str", "to_str"}

OptionsDefaults ==
    [justify |-> "left", fill_byte |-> <<32>>, encoding |-> "utf-8",
     from_str |-> "strip", to_str |-> "str"]

\* what Options.model_validate rejects: a required field missing, a wrong type,
\* a justify outside the Literal, a fill_byte not of length 1
OptionsValid(config) ==
    /\ {"field_info", "length", "order"} \subseteq DOMAIN config
    /\ config.length \in Int
    /\ config.order \in Int
    /\ ("justify" \in DOMAIN config => config.justify \in {"left", "right"})
    /\ ("fill_byte" \in DOMAIN config => Len(config.fill_byte) = 1)

\* Options.model_validate(config): unknown keys ignored, defaults filled in
model_validate(config) == Restrict(config, OptionsModelFields) @@ OptionsDefaults

\* pydantic.Field(**kwargs): the keywords Field knows, the rest kept in
\* json_schema_extra
FieldParams == {"default", "exclude"}

Field(kwargs) ==
    [exclude           |-> IF "exclude" \in DOMAIN kwargs THEN kwargs.exclude ELSE FALSE,
     required          |-> "default" \notin DOMAIN kwargs,
     default           |-> IF "default" \in DOMAIN kwargs THEN kwargs.default ELSE None,
     json_schema_extra |-> Restrict(kwargs, (DOMAIN kwargs) \ FieldParams)]

\* the config dict of fixedwidth.py:25-29; a keyword overrides the keys before it
OrderedFieldConfig(field, counter, kwargs) ==
    Restrict(kwargs, OptionsModelFields)
        @@ [field_info |-> [exclude |-> field.exclude], order |-> counter]

\* Options.save_to: json_schema_extra.update(self.model_dump())
save_to(options, field) ==
    [field EXCEPT !.json_schema_extra = options @@ field.json_schema_extra]

\* Options.load_from
load_from(field_info) == model_validate(field_info.json_schema_extra)

\* the FieldInfo an OrderedField call returns
OrderedFieldResult(counter, kwargs) ==
    LET field == Field(kwargs)
    IN  IF ~field.exclude
        THEN save_to(model_validate(OrderedFieldConfig(field, counter, kwargs)), field)
        ELSE field

\* the counter after the call
OrderedFieldCounter(counter, kwargs) ==
    IF ~Field(kwargs).exclude THEN counter + 1 ELSE counter

\* Padding = partial(OrderedField, default="")
Padding(kwargs) == kwargs @@ [default |-> [str |-> <<>>]]

----------------------------------------------------------------------------
(* Fixedwidth.__pydantic_init_subclass__ *)

\* the filter of the generator (fixedwidth.py:57)
IsIncluded(value) == ~value.exclude

\* the sort key (fixedwidth.py:60)
OrderKey(x) == x.options.order

\* sorted(): stable, ascending by key
RECURSIVE sorted(_)
sorted(s) ==
    IF s = <<>> THEN <<>>
    ELSE LET x == s[Len(s)]
             t == sorted(SubSeq(s, 1, Len(s) - 1))
             k == Cardinality({i \in 1..Len(t) : OrderKey(t[i]) <= OrderKey(x)})
         IN  SubSeq(t, 1, k) \o <<x>> \o SubSeq(t, k + 1, Len(t))

\* variant: the exclude filter left out, an excluded field given options
field_options_all(mf) ==
    [i \in 1..Len(mf) |->
        [name |-> mf[i].name,
         options |-> model_validate(mf[i].field_info.json_schema_extra
                        @@ [field_info |-> [exclude |-> FALSE], order |-> 0])]]

\* the generator of fixedwidth.py:51-58
field_options(mf) ==
    LET kept == SelectSeq(mf, LAMBDA e : IsIncluded(e.field_info))
    IN  [i \in 1..Len(kept) |->
            [name |-> kept[i].name, options |-> load_from(kept[i].field_info)]]

\* variant: the sort left out, the schema in model_fields order
init_subclass_unsorted(mf) == field_options(mf)

init_subclass(mf) == sorted(field_options(mf))

----------------------------------------------------------------------------
(* Fixedwidth.format_bytes *)

RECURSIVE Join(_)
Join(segs) == IF segs = <<>> THEN <<>> ELSE Head(segs) \o Join(Tail(segs))

\* one field's bytes before padding (fixedwidth.py:70-72)
Encoded(value, options) == to_bytes(to_str(options.to_str, value), options.encoding)

\* variant: the overflow test on the characters of the string
OverflowsByChars(value, options) == Len(to_str(options.to_str, value)) > options.length

\* the overflow test of fixedwidth.py:73, on the encoded bytes
Overflows(value, options) == Len(Encoded(value, options)) > options.length

\* variant: no padding
PadNothing(b, options) == b

\* variant: the two justify branches exchanged
PadSwapped(b, options) ==
    IF options.justify = "left"
    THEN rjust(b, options.length, options.fill_byte)
    ELSE ljust(b, options.length, options.fill_byte)

\* the padding of fixedwidth.py:77-81
Pad(b, options) ==
    IF options.justify = "left"
    THEN ljust(b, options.length, options.fill_byte)
    ELSE rjust(b, options.length, options.fill_byte)

\* the loop of fixedwidth.py:66-82 from schema position i on; values is the list
\* built so far, reads the attribute names getattr was called with
RECURSIVE format_loop(_, _, _, _, _)
format_loop(obj, opts, i, values, reads) ==
    IF i > Len(opts)
    THEN [raised |-> FALSE, bytes |-> Join(values), values |-> values, reads |-> reads]
    ELSE LET field_name == opts[i].name
             options    == opts[i].options
         IN  IF options.field_info.exclude
             THEN format_loop(obj, opts, i + 1, values, reads)
             ELSE LET b == Encoded(obj[field_name], options)
                  IN  IF Overflows(obj[field_name], options)
                      THEN [raised |-> TRUE, bytes |-> <<>>, values |-> values,
                            reads |-> Append(reads, field_name)]
                      ELSE format_loop(obj, opts, i + 1, Append(values, Pad(b, options)),
                                       Append(reads, field_name))

format_bytes(obj, opts) == format_loop(obj, opts, 1, <<>>, <<>>)

----------------------------------------------------------------------------
(* Fixedwidth.parse_bytes *)

\* variant: the slice end not offset by index
FieldSliceEndAtLength(b, index, options) == Slice(b, index, options.length)

\* the slice of fixedwidth.py:98
FieldSlice(b, index, options) == Slice(b, index, index + options.length)

\* variant: index never advanced
NextIndexStuck(index, options) == index

\* the advance of fixedwidth.py:102
NextIndex(index, options) == index + options.length

\* the loop of fixedwidth.py:94-102 from schema position i on; slices records
\* the bytes each field was handed
RECURSIVE parse_loop(_, _, _, _, _, _)
parse_loop(b_raw, opts, i, index, values, slices) ==
    IF i > Len(opts)
    THEN [raised |-> "", values |-> values, slices |-> slices]
    ELSE LET field_name == opts[i].name
             options    == opts[i].options
         IN  IF options.field_info.exclude
             THEN parse_loop(b_raw, opts, i + 1, index, values, slices)
             ELSE LET b  == FieldSlice(b_raw, index, options)
                      s  == from_bytes(b, options.encoding)
                      v  == from_str(options.from_str, s.s)
                      sl == Append(slices, [name |-> field_name, b |-> b])
                  IN  IF s.err
                      THEN [raised |-> "UnicodeDecodeError", values |-> values, slices |-> sl]
                      ELSE IF v.err
                      THEN [raised |-> "ValueError", values |-> values, slices |-> sl]
                      ELSE parse_loop(b_raw, opts, i + 1, NextIndex(index, options),
                                      Append(values, [name |-> field_name, value |-> v.v]), sl)

\* the record class's validation of one keyword (the object model outside the
\* codec): a str field takes a str, an int field an int or a string of digits,
\* a datetime field a datetime
Validate(annotation, v) ==
    IF annotation = "str" THEN [err |-> ~IsStr(v), v |-> v]
    ELSE IF annotation = "int"
    THEN IF IsInt(v) THEN [err |-> FALSE, v |-> v]
         ELSE IF IsStr(v) /\ v.str # <<>> /\ \A i \in 1..Len(v.str) : IsDigit(v.str[i])
         THEN [err |-> FALSE, v |-> [int |-> DigitsValue(v.str)]]
         ELSE [err |-> TRUE, v |-> v]
    ELSE [err |-> ~IsDt(v), v |-> v]

Lookup(values, name) ==
    LET hits == SelectSeq(values, LAMBDA e : e.name = name)
    IN  IF hits = <<>> THEN None ELSE hits[Len(hits)].value

\* cls(**values) of fixedwidth.py:104, no extras: [err, obj]
Construct(mf, annotations, values) ==
    LET names == {mf[i].name : i \in 1..Len(mf)}
        info(n) == (CHOOSE i \in 1..Len(mf) : mf[i].name = n)
        given(n) == Lookup(values, n) # None
        checked(n) == Validate(annotations[n], Lookup(values, n))
    IN  [err |-> \E n \in names :
                    IF given(n) THEN checked(n).err ELSE mf[info(n)].field_info.required,
         obj |-> [n \in names |->
                    IF given(n) THEN checked(n).v ELSE mf[info(n)].field_info.default]]

parse_bytes(b_raw, opts, mf, annotations) ==
    LET r == parse_loop(b_raw, opts, 1, 0, <<>>, <<>>)
        c == Construct(mf, annotations, r.values)
    IN  IF r.raised # "" THEN [raised |-> r.raised, slices |-> r.slices, values |-> r.values, obj |-> None]
        ELSE IF c.err THEN [raised |-> "ValidationError", slices |-> r.slices, values |-> r.values, obj |-> None]
        ELSE [raised |-> "", slices |-> r.slices, values |-> r.values, obj |-> c.obj]

----------------------------------------------------------------------------
(* The callers *)

Str(s) == [str |-> s]

\* the test module's declarations (test_fixedwidth.py:9-18), in call order
TestNames == <<"string", "hangul", "number", "p_", "ts">>

TestKwargs ==
    <<[length |-> 8],
      [length |-> 6],
      [length |-> 10, justify |-> "right", fill_char |-> <<48>>],
      Padding([length |-> 10]),
      [length |-> 20, to_str |-> "strftime", from_str |-> "strptime"]>>

TestAnnotations ==
    [string |-> "str", hangul |-> "str", number |-> "int", p_ |-> "str", ts |-> "datetime"]

\* "<DFG&", "한글", 381, 2024-01-23 14:11:20.124277 (test_fixedwidth.py:23-28)
TestString == Str(<<60, 68, 70, 71, 38>>)
TestHangul == Str(<<54620, 44544>>)
TestNumber == [int |-> 381]
TestTs     == [dt |-> <<2024, 1, 23, 14, 11, 20, 124277>>]

TestInstance ==
    [string |-> TestString, hangul |-> TestHangul, number |-> TestNumber,
     p_ |-> Str(<<>>), ts |-> TestTs]

\* the instances the test caller formats: the test's own and its neighbours
TestInstances ==
    {[string |-> a, hangul |-> b, number |-> c, p_ |-> Str(<<>>), ts |-> d] :
        a \in {TestString, Str(<<88>>), Str(<<>>)},
        b \in {TestHangul, Str(<<54620>>), Str(<<54620, 44544, 54620>>)},
        c \in {TestNumber, [int |-> 0], [int |-> 1234567890], [int |-> 7]},
        d \in {TestTs, [dt |-> <<1999, 12, 31, 23, 59, 59, 0>>]}}

\* the literal of test_fixedwidth.py:35
TestRaw ==
    <<60, 68, 70, 71, 38, 32, 32, 32, 237, 149, 156, 234, 184, 128>>
        \o <<32, 32, 32, 32, 32, 32, 32, 51, 56, 49>>
        \o [i \in 1..10 |-> 32]
        \o <<50, 48, 50, 52, 48, 49, 50, 51, 49, 52, 49, 49, 50, 48, 49, 50, 52, 50, 55, 55>>

\* the generic caller: field i is bound to the attribute GenericNames[i]
GenericNames == <<"f1", "f2", "f3", "f4">>

GenericKwargs ==
    {[length |-> 3],
     [length |-> 3, justify |-> "right", fill_byte |-> <<48>>],
     [length |-> 2, fill_byte |-> <<48>>],
     [length |-> 2, justify |-> "right"],
     [length |-> 3, order |-> 5],
     [length |-> 2, exclude |-> TRUE, default |-> Str(<<>>)],
     [length |-> 0],
     [length |-> -1]}

\* "X", the three-byte "한", and " X", which str.strip() changes
GenericValues == {Str(<<88>>), Str(<<54620>>), Str(<<32, 88>>)}

\* the value an excluded attribute holds on every instance formatted
ExcludedValue == Str(<<88>>)

\* "AB 한CD": buffers handed to parse_bytes are its prefixes
RawText == <<65, 66, 32, 237, 149, 156, 67, 68>>

Names(s) == IF s = "test" THEN TestNames ELSE GenericNames

Annotations(s, mf) ==
    IF s = "test" THEN TestAnnotations ELSE [n \in {mf[i].name : i \in 1..Len(mf)} |-> "str"]

\* the keyword sets the next OrderedField call may be made with
KwargsFor(s, n) ==
    IF s = "test" THEN (IF n < Len(TestKwargs) THEN {TestKwargs[n + 1]} ELSE {})
    ELSE (IF n < MaxFields THEN GenericKwargs ELSE {})

Orderings(n) == {p \in [1..n -> 1..n] : \A i, j \in 1..n : p[i] = p[j] => i = j}

\* the orders the class body may list the declared fields in
BodyOrders(s, n) ==
    IF s = "test" THEN (IF n = Len(TestKwargs) THEN {[i \in 1..n |-> i]} ELSE {})
    ELSE (IF n >= 1 THEN Orderings(n) ELSE {})

Instances(s, mf) ==
    IF s = "test" THEN TestInstances
    ELSE {o \in [{mf[i].name : i \in 1..Len(mf)} -> GenericValues] :
            \A i \in 1..Len(mf) :
                mf[i].field_info.exclude => o[mf[i].name] = ExcludedValue}

RawInputs(s) ==
    IF s = "test" THEN {TestRaw} ELSE {SubSeq(RawText, 1, n) : n \in 0..Len(RawText)}

----------------------------------------------------------------------------
(* Actions *)

NoResult == [raised |-> FALSE, bytes |-> <<>>, values |-> <<>>, reads |-> <<>>]

ClassDefined == model_fields # <<>>

\* OrderedField(**kwargs), single-threaded (fixedwidth.py:19-35)
OrderedField(kwargs) ==
    /\ ~ClassDefined
    /\ LET field == Field(kwargs)
       IN  field.exclude \/ OptionsValid(OrderedFieldConfig(field, __counter, kwargs))
    /\ calls' = Append(calls, kwargs)
    /\ declared' = Append(declared, OrderedFieldResult(__counter, kwargs))
    /\ __counter' = OrderedFieldCounter(__counter, kwargs)
    /\ UNCHANGED <<suite, model_fields, _field_options>>
    /\ UNCHANGED callVars
    /\ UNCHANGED threadVars

\* class C(Fixedwidth) with the declared fields listed in the order body
\* (fixedwidth.py:47-61)
DefineClass(body) ==
    /\ ~ClassDefined
    /\ model_fields' = [i \in 1..Len(declared) |->
                            [name |-> Names(suite)[body[i]], field_info |-> declared[body[i]]]]
    /\ _field_options' = init_subclass(model_fields')
    /\ UNCHANGED <<suite, __counter, calls, declared>>
    /\ UNCHANGED callVars
    /\ UNCHANGED threadVars

\* obj.format_bytes() (fixedwidth.py:63-87); the caller makes one call on the
\* class, a format_bytes (and then may parse the result back) or a parse_bytes
FormatBytes(obj) ==
    /\ ClassDefined
    /\ self = None
    /\ parsed = None
    /\ self' = obj
    /\ result' = format_bytes(obj, _field_options)
    /\ raw' = <<>>
    /\ parsed' = None
    /\ UNCHANGED classVars
    /\ UNCHANGED threadVars

\* cls.parse_bytes(b) (fixedwidth.py:89-107): of the buffer just formatted, or
\* of a buffer from outside when the caller holds no instance
ParseBytes(b) ==
    /\ ClassDefined
    /\ parsed = None
    /\ \/ self # None /\ ~result.raised /\ b = result.bytes
       \/ self = None /\ b \in RawInputs(suite)
    /\ raw' = b
    /\ parsed' = parse_bytes(b, _field_options, model_fields, Annotations(suite, model_fields))
    /\ UNCHANGED <<self, result>>
    /\ UNCHANGED classVars
    /\ UNCHANGED threadVars

InitCommon ==
    /\ __counter = 0
    /\ calls = <<>>
    /\ declared = <<>>
    /\ model_fields = <<>>
    /\ _field_options = <<>>
    /\ self = None
    /\ result = NoResult
    /\ raw = <<>>
    /\ parsed = None
    /\ tpc = [t \in 1..NumThreads |-> "idle"]
    /\ tlocal = [t \in 1..NumThreads |-> [n |-> 0, order |-> 0, tmp |-> 0]]
    /\ tdone = [t \in 1..NumThreads |-> <<>>]

Init == suite = "generic" /\ InitCommon

Next ==
    \/ \E kwargs \in KwargsFor(suite, Len(calls)) : OrderedField(kwargs)
    \/ \E body \in BodyOrders(suite, Len(declared)) : DefineClass(body)
    \/ \E obj \in Instances(suite, model_fields) : FormatBytes(obj)
    \/ \E b \in RawInputs(suite) \cup {result.bytes} : ParseBytes(b)

Spec == Init /\ [][Next]_vars

\* the test module as the caller
InitTest == suite = "test" /\ InitCommon

SpecTest == InitTest /\ [][Next]_vars

----------------------------------------------------------------------------
(* OrderedField called from several threads: the call split at its accesses *)
(* to the module global __counter (fixedwidth.py:27 and :33)                *)

Threads == 1..NumThreads

ThreadKwargs == {[length |-> 1], [length |-> 1, exclude |-> TRUE, default |-> Str(<<>>)]}

\* fixedwidth.py:23-31: the field is built and, unless excluded, the config
\* reads __counter; an excluded call returns at once
TStart(t, kwargs) ==
    /\ tpc[t] = "idle"
    /\ tlocal[t].n < MaxCalls
    /\ LET field == Field(kwargs)
       IN  IF field.exclude
           THEN /\ tlocal' = [tlocal EXCEPT ![t].n = @ + 1]
                /\ UNCHANGED tpc
           ELSE /\ tlocal' = [tlocal EXCEPT
                                ![t].order = OrderedFieldConfig(field, __counter, kwargs).order]
                /\ tpc' = [tpc EXCEPT ![t] = "saved"]
    /\ UNCHANGED <<tdone, __counter>>
    /\ UNCHANGED <<suite, calls, declared, model_fields, _field_options>>
    /\ UNCHANGED callVars

\* fixedwidth.py:33, the read of __counter += 1
TLoad(t) ==
    /\ tpc[t] = "saved"
    /\ tlocal' = [tlocal EXCEPT ![t].tmp = __counter]
    /\ tpc' = [tpc EXCEPT ![t] = "loaded"]
    /\ UNCHANGED <<tdone, __counter>>
    /\ UNCHANGED <<suite, calls, declared, model_fields, _field_options>>
    /\ UNCHANGED callVars

\* fixedwidth.py:33, the write of __counter += 1, and the return
TStore(t) ==
    /\ tpc[t] = "loaded"
    /\ __counter' = tlocal[t].tmp + 1
    /\ tdone' = [tdone EXCEPT ![t] = Append(@, tlocal[t].order)]
    /\ tlocal' = [tlocal EXCEPT ![t].n = @ + 1]
    /\ tpc' = [tpc EXCEPT ![t] = "idle"]
    /\ UNCHANGED <<suite, calls, declared, model_fields, _field_options>>
    /\ UNCHANGED callVars

InitThreads == suite = "threads" /\ InitCommon

NextThreads ==
    \/ \E t \in Threads : \E kwargs \in ThreadKwargs : TStart(t, kwargs)
    \/ \E t \in Threads : TLoad(t)
    \/ \E t \in Threads : TStore(t)

SpecThreads == InitThreads /\ [][NextThreads]_vars

----------------------------------------------------------------------------
(* Vocabulary of the properties *)

Formatted  == self # None
Parsed     == parsed # None
ParsedBack == self # None /\ parsed # None

Schema == 1..Len(_field_options)
NameAt(k)    == _field_options[k].name
OptionsAt(k) == _field_options[k].options
ValueAt(k)   == self[NameAt(k)]

Min(a, b) == IF a < b THEN a ELSE b

RECURSIVE SumLen(_)
SumLen(segs) == IF segs = <<>> THEN 0 ELSE Len(Head(segs)) + SumLen(Tail(segs))

\* the call that declared the field bound to an attribute name
CallOf(name) == CHOOSE j \in 1..Len(Names(suite)) : Names(suite)[j] = name

KwExcluded(kwargs) == "exclude" \in DOMAIN kwargs /\ kwargs.exclude
IncludedCalls == {j \in 1..Len(calls) : ~KwExcluded(calls[j])}

\* position of the field declared by call j among the attributes format_bytes read
ReadPos(j) == CHOOSE k \in 1..Len(result.reads) : result.reads[k] = Names(suite)[j]

\* where segment k of the output starts and ends
SegStart(k) == SumLen(SubSeq(result.values, 1, k - 1))
SegEnd(k)   == SegStart(k) + Len(result.values[k])

\* the bytes of one field before padding, from the primitives
EncodedAt(k) == str_encode(to_str(OptionsAt(k).to_str, ValueAt(k)))

\* the claim's condition on a value: it fits and from_str(to_str(v)) == v
FitsAt(k) == Len(EncodedAt(k)) <= OptionsAt(k).length
StableAt(k) ==
    LET r == from_str(OptionsAt(k).from_str, to_str(OptionsAt(k).to_str, ValueAt(k)))
    IN  ~r.err /\ r.v = ValueAt(k)

\* from_str gives the value back from the padded field text
PaddedStableAt(k) ==
    LET o   == OptionsAt(k)
        gap == [i \in 1..(o.length - Len(EncodedAt(k))) |-> o.fill_byte[1]]
        seg == IF o.justify = "left" THEN EncodedAt(k) \o gap ELSE gap \o EncodedAt(k)
        s   == bytes_decode(seg)
        r   == from_str(o.from_str, s.s)
    IN  ~s.err /\ ~r.err /\ r.v = ValueAt(k)

SameIncluded ==
    /\ parsed.raised = ""
    /\ \A k \in Schema : parsed.obj[NameAt(k)] = self[NameAt(k)]

----------------------------------------------------------------------------
----------------------------------------------------------------------------
(* C2: when an included field's encoded bytes are longer than its length,   *)
(* format_bytes raises and returns no bytes; the first such field stops the *)
(* loop, and the segments built before it are not returned.                 *)
FirstOverflow == CHOOSE k \in Schema : ~FitsAt(k) /\ \A m \in 1..(k - 1) : FitsAt(m)

C2_Overflow ==
    (Formatted /\ \E k \in Schema : ~FitsAt(k)) =>
        /\ result.raised
        /\ result.bytes = <<>>
        /\ Len(result.reads) = FirstOverflow
        /\ Len(result.values) = FirstOverflow - 1

\* the second field overflows in bytes though not in characters, after the
\* first field's segment was built
C2_Witness ==
    /\ Formatted /\ result.raised /\ result.bytes = <<>>
    /\ Len(result.values) = 1 /\ Len(result.values[1]) > 0
    /\ Len(to_str(OptionsAt(2).to_str, ValueAt(2))) <= OptionsAt(2).length
    /\ Len(EncodedAt(2)) > OptionsAt(2).length

----------------------------------------------------------------------------
(* C3, as stated: of two included fields the one declared first comes first *)
(* in the output, explicit order values included.                           *)
\* every byte of the one field's segment lies before every byte of the other's
Precedes(i, j) ==
    (Len(result.values[ReadPos(i)]) > 0 /\ Len(result.values[ReadPos(j)]) > 0)
        => SegEnd(ReadPos(i)) <= SegStart(ReadPos(j))

C3_DeclarationOrder ==
    (Formatted /\ ~result.raised) =>
        \A i, j \in IncludedCalls : i < j => Precedes(i, j)

(* C3, amended: of two included fields given no explicit order the one      *)
(* declared first comes first in the output, whatever the order of          *)
(* model_fields; in general the field with the smaller order value comes    *)
(* first, so an explicit order places a field by its value.                 *)
OrderOf(j) == declared[j].json_schema_extra.order

C3_OrderValueOrder ==
    (Formatted /\ ~result.raised) =>
        \A i, j \in IncludedCalls :
            /\ (i < j /\ "order" \notin DOMAIN calls[i] /\ "order" \notin DOMAIN calls[j])
                    => Precedes(i, j)
            /\ OrderOf(i) < OrderOf(j) => Precedes(i, j)

\* the class body lists the second declaration first; the output does not
C3_Witness ==
    /\ Formatted /\ ~result.raised
    /\ IncludedCalls = {1, 2}
    /\ "order" \notin DOMAIN calls[1] /\ "order" \notin DOMAIN calls[2]
    /\ model_fields[1].name = "f2" /\ model_fields[2].name = "f1"
    /\ result.reads = <<"f1", "f2">>
    /\ Len(result.values[1]) > 0 /\ Len(result.values[2]) > 0

----------------------------------------------------------------------------
(* C4: a format_bytes call that succeeds returns exactly as many bytes as   *)
(* the declared lengths of the included fields add up to.                   *)
RECURSIVE DeclaredTotal(_)
DeclaredTotal(ks) ==
    IF ks = <<>> THEN 0
    ELSE (IF KwExcluded(Head(ks)) THEN 0 ELSE Head(ks).length) + DeclaredTotal(Tail(ks))

C4_Length ==
    (Formatted /\ ~result.raised) => Len(result.bytes) = DeclaredTotal(calls)

\* five bytes out of two fields, one of them padded
C4_Witness ==
    /\ Formatted /\ ~result.raised
    /\ Len(_field_options) = 2
    /\ DeclaredTotal(calls) = 5 /\ Len(result.bytes) = 5
    /\ \E k \in Schema : Len(EncodedAt(k)) < OptionsAt(k).length

----------------------------------------------------------------------------
(* C5: a segment is the encoded bytes followed by fill bytes up to the      *)
(* length when justify is left, and the fill bytes followed by the encoded  *)
(* bytes when justify is right; "X" in five bytes with fill "0" is "0000X"  *)
(* right-justified and "X0000" left-justified.                              *)
PaddedExactly(seg, b, o) ==
    /\ Len(seg) = o.length
    /\ \A p \in 1..o.length :
            seg[p] = IF o.justify = "left"
                     THEN (IF p <= Len(b) THEN b[p] ELSE o.fill_byte[1])
                     ELSE (IF p <= o.length - Len(b) THEN o.fill_byte[1]
                           ELSE b[p - (o.length - Len(b))])

C5_Padding ==
    /\ Formatted =>
            \A k \in 1..Len(result.values) :
                PaddedExactly(result.values[k], EncodedAt(k), OptionsAt(k))
    /\ Pad(<<88>>, [length |-> 5, justify |-> "right", fill_byte |-> <<48>>])
            = <<48, 48, 48, 48, 88>>
    /\ Pad(<<88>>, [length |-> 5, justify |-> "left", fill_byte |-> <<48>>])
            = <<88, 48, 48, 48, 48>>

\* "X" right-justified with "0" beside "X" left-justified with "0"
C5_Witness ==
    /\ Formatted /\ ~result.raised
    /\ Len(result.values) = 2
    /\ \E k, m \in Schema :
            /\ OptionsAt(k).justify = "right" /\ OptionsAt(k).fill_byte = <<48>>
            /\ ValueAt(k) = Str(<<88>>) /\ result.values[k] = <<48, 48, 88>>
            /\ OptionsAt(m).justify = "left" /\ OptionsAt(m).fill_byte = <<48>>
            /\ ValueAt(m) = Str(<<88>>) /\ result.values[m] = <<88, 48>>

----------------------------------------------------------------------------
(* C6: an excluded field is absent from the schema, format_bytes neither    *)
(* reads it nor emits bytes for it, parse_bytes neither slices the buffer   *)
(* for it nor assigns it, and the included fields are laid out as if the    *)
(* excluded field had never been declared.                                  *)
ExcludedNames ==
    {model_fields[i].name : i \in {m \in 1..Len(model_fields) : KwExcluded(calls[CallOf(model_fields[m].name)])}}

SeqNames(s) == {s[i].name : i \in 1..Len(s)}
SeqRange(s) == {s[i] : i \in 1..Len(s)}

\* the FieldInfo objects the same calls return when the excluded ones are left out
RECURSIVE Replay(_, _)
Replay(ks, counter) ==
    IF ks = <<>> THEN <<>>
    ELSE <<OrderedFieldResult(counter, Head(ks))>>
            \o Replay(Tail(ks), OrderedFieldCounter(counter, Head(ks)))

\* model_fields of the class whose body omits the excluded fields
FieldsWithoutExcluded ==
    LET fields == Replay(SelectSeq(calls, LAMBDA k : ~KwExcluded(k)), 0)
        rank(name) == Cardinality({j \in IncludedCalls : j <= CallOf(name)})
        kept == SelectSeq(model_fields, LAMBDA e : e.name \notin ExcludedNames)
    IN  [i \in 1..Len(kept) |-> [name |-> kept[i].name, field_info |-> fields[rank(kept[i].name)]]]

SchemaWithoutExcluded == sorted(field_options(FieldsWithoutExcluded))

C6_Exclusion ==
    ClassDefined =>
        /\ ExcludedNames \cap SeqNames(_field_options) = {}
        /\ _field_options = SchemaWithoutExcluded
        /\ Formatted =>
                /\ ExcludedNames \cap SeqRange(result.reads) = {}
                /\ Len(result.values) <= Len(_field_options)
                /\ LET alone == format_loop(self, SchemaWithoutExcluded, 1, <<>>, <<>>)
                   IN  result.bytes = alone.bytes /\ result.values = alone.values
        /\ Parsed =>
                /\ ExcludedNames \cap SeqNames(parsed.slices) = {}
                /\ ExcludedNames \cap SeqNames(parsed.values) = {}
                /\ LET alone == parse_loop(raw, SchemaWithoutExcluded, 1, 0, <<>>, <<>>)
                   IN  parsed.slices = alone.slices /\ parsed.values = alone.values

\* an excluded field listed first in the class, an included one after it,
\* formatted to bytes and parsed back
C6_Witness ==
    /\ ParsedBack
    /\ Len(model_fields) = 2
    /\ model_fields[1].name \in ExcludedNames
    /\ Len(_field_options) = 1
    /\ ~result.raised /\ Len(result.bytes) > 0
    /\ parsed.raised = "" /\ Len(parsed.slices) = 1

----------------------------------------------------------------------------
(* C7, as stated: the test module's record with the test's values formats   *)
(* to 54 bytes in which number is "0000000381": the fill written on the     *)
(* number field's declaration takes effect.                                 *)
TestExpectedZeroFilled ==
    <<60, 68, 70, 71, 38, 32, 32, 32, 237, 149, 156, 234, 184, 128>>
        \o <<48, 48, 48, 48, 48, 48, 48, 51, 56, 49>>
        \o [i \in 1..10 |-> 32]
        \o <<50, 48, 50, 52, 48, 49, 50, 51, 49, 52, 49, 49, 50, 48, 49, 50, 52, 50, 55, 55>>

C7_Scenario ==
    (suite = "test" /\ self = TestInstance) =>
        /\ ~result.raised
        /\ Len(result.bytes) = Len(TestExpectedZeroFilled)
        /\ result.bytes = TestExpectedZeroFilled

----------------------------------------------------------------------------
(* C8: parse_bytes hands the i-th schema field raw[off : off + length],     *)
(* off the sum of the lengths before it, clipped to the buffer; a short     *)
(* buffer gives truncated or empty slices and no failure of its own, and    *)
(* bytes past the schema's total are not looked at.                         *)
RECURSIVE SchemaOffset(_)
SchemaOffset(k) == IF k = 1 THEN 0 ELSE SchemaOffset(k - 1) + OptionsAt(k - 1).length

\* the bytes of raw at positions lo+1..hi, both ends clipped to the buffer
Clipped(lo, hi) ==
    LET a == Min(lo, Len(raw))
        z == Min(hi, Len(raw))
    IN  [p \in 1..(z - a) |-> raw[a + p]]

C8_Slicing ==
    Parsed =>
        /\ Len(parsed.slices) <= Len(_field_options)
        /\ \A k \in 1..Len(parsed.slices) :
                /\ parsed.slices[k].name = NameAt(k)
                /\ parsed.slices[k].b
                        = Slice(raw, SchemaOffset(k), SchemaOffset(k) + OptionsAt(k).length)
                /\ (\A m \in 1..k : OptionsAt(m).length >= 0) =>
                        parsed.slices[k].b
                            = Clipped(SchemaOffset(k), SchemaOffset(k) + OptionsAt(k).length)
        /\ \/ parsed.raised \in {"", "ValidationError"}
                /\ Len(parsed.slices) = Len(_field_options)
           \/ parsed.raised = "UnicodeDecodeError"
                /\ bytes_decode(parsed.slices[Len(parsed.slices)].b).err
           \/ parsed.raised = "ValueError"
                /\ OptionsAt(Len(parsed.slices)).from_str # "strip"

\* a buffer shorter than the schema: the second field gets a truncated slice
\* and parse_bytes still returns
C8_Witness ==
    /\ Parsed /\ self = None
    /\ Len(_field_options) = 2
    /\ \A k \in Schema : OptionsAt(k).length > 0
    /\ Len(raw) < OptionsAt(1).length + OptionsAt(2).length
    /\ parsed.raised = ""
    /\ Len(parsed.slices) = 2
    /\ Len(parsed.slices[1].b) = OptionsAt(1).length
    /\ Len(parsed.slices[2].b) > 0
    /\ Len(parsed.slices[2].b) < OptionsAt(2).length

----------------------------------------------------------------------------
(* C9, as stated: under any interleaving of OrderedField calls from several *)
(* threads every call gets an order of its own, and once all calls have     *)
(* returned the counter stands at its initial value plus their number.      *)
RECURSIVE Finished(_)
Finished(t) == IF t = 0 THEN 0 ELSE Len(tdone[t]) + Finished(t - 1)

C9_AtomicOrder ==
    /\ \A t, u \in Threads : \A i \in 1..Len(tdone[t]) : \A j \in 1..Len(tdone[u]) :
            (t # u \/ i # j) => tdone[t][i] # tdone[u][j]
    /\ (\A t \in Threads : tpc[t] = "idle") => __counter = 0 + Finished(NumThreads)

----------------------------------------------------------------------------
(* C10, as stated: every field of a defined class's schema has length > 0;  *)
(* a declaration with length 0 or below is not accepted.                    *)
C10_PositiveLength ==
    \A k \in Schema : OptionsAt(k).length > 0

====
